---- MODULE Spec2Model ----
(***************************************************************************)
(* A model of src/src/medrag_mistral.py: the MedRAG class (constructor,    *)
(* answer, generate, custom_stop) and CustomStoppingCriteria.              *)
(*                                                                         *)
(* Backend identifiers are TLA+ strings, tested with the same substring,   *)
(* split and lower-casing tests as the code.  Texts (snippets, contexts,   *)
(* answers) are run-length encoded strings: a sequence of runs [c, n],     *)
(* "n copies of the character c", no two adjacent runs with the same c.    *)
(* The representation is one-to-one with strings and lets a context reach  *)
(* the real context_length of every profile.                               *)
(***************************************************************************)
EXTENDS Integers, Sequences, FiniteSets, TLC

VARIABLES
    pc,                 \* "new" | "idle" | "failed" | "generating" | "saving"
    llm_name, rag,      \* constructor arguments
    attrs,              \* the attributes the constructor has set on self
    model,              \* self.model: "name" | "genai" | "mistral" | "pipeline"
    tokenizer,          \* self.tokenizer: "tiktoken" | "auto"
    chat_template,      \* self.tokenizer.chat_template
    max_length, context_length,
    templates,          \* self.templates: [cot_prompt, medrag_prompt]
    retrieval_system,   \* TRUE when a RetrievalSystem was constructed
    question, options, save_dir,
    retrieved_snippets, scores, contexts, answers,
    outcome,            \* of the last answer(): "none" | "returned" | "raised"
    result,             \* first component of the returned tuple
    ncalls,             \* answer() invocations so far
    ret_calls,          \* retrieve() calls of the current answer()
    gen_calls,          \* generate() calls of the current answer()
    gen,                \* what the last generate() call of this answer() did
    model_calls,        \* invocations of the local model so far
    pkv_out,            \* past_key_values of the last mistral response (0: none)
    dir_exists,         \* the save directory exists
    written,            \* files written by the current answer(), in order
    error,              \* what the last answer() raised ("none" if nothing)
    stops_words, input_len,   \* CustomStoppingCriteria fields
    input_ids,          \* argument of the last CustomStoppingCriteria call
    stop_result         \* its result: "none" before a call, else "True" | "False"

vars == <<pc, llm_name, rag, attrs, model, tokenizer, chat_template, max_length,
          context_length, templates, retrieval_system, question, options,
          save_dir, retrieved_snippets, scores, contexts, answers, outcome,
          result, ncalls, ret_calls, gen_calls, gen, model_calls, pkv_out,
          dir_exists, written, error, stops_words, input_len, input_ids,
          stop_result>>

selfVars == <<llm_name, rag, attrs, model, tokenizer, chat_template, max_length,
              context_length, templates, retrieval_system>>

callVars == <<question, options, save_dir, retrieved_snippets, scores, contexts,
              answers, outcome, result, ncalls, ret_calls, gen_calls, dir_exists,
              written, error>>

genVars == <<gen, model_calls, pkv_out>>

stopVars == <<stops_words, input_len, input_ids, stop_result>>

(***************************************************************************)
(* Python str operations on backend identifiers.                           *)
(***************************************************************************)
Min(a, b) == IF a < b THEN a ELSE b

\* A function as the table of its values (f itself, every value computed).
Tabulated(f) == CHOOSE g \in {f} : g = g

\* p in s
Contains(s, p) ==
    \E i \in 1..(Len(s) - Len(p) + 1) : SubSeq(s, i, i + Len(p) - 1) = p

LowerChar(ch) ==
    CASE ch = "A" -> "a" [] ch = "B" -> "b" [] ch = "C" -> "c" [] ch = "D" -> "d"
      [] ch = "E" -> "e" [] ch = "F" -> "f" [] ch = "G" -> "g" [] ch = "H" -> "h"
      [] ch = "I" -> "i" [] ch = "J" -> "j" [] ch = "K" -> "k" [] ch = "L" -> "l"
      [] ch = "M" -> "m" [] ch = "N" -> "n" [] ch = "O" -> "o" [] ch = "P" -> "p"
      [] ch = "Q" -> "q" [] ch = "R" -> "r" [] ch = "S" -> "s" [] ch = "T" -> "t"
      [] ch = "U" -> "u" [] ch = "V" -> "v" [] ch = "W" -> "w" [] ch = "X" -> "x"
      [] ch = "Y" -> "y" [] ch = "Z" -> "z" [] OTHER -> ch

\* The characters lo..hi of s, lower-cased (by halves, to keep recursion shallow).
RECURSIVE LowerRange(_, _, _)
LowerRange(s, lo, hi) ==
    IF lo > hi THEN ""
    ELSE IF lo = hi THEN LowerChar(SubSeq(s, lo, lo))
    ELSE LowerRange(s, lo, (lo + hi) \div 2) \o LowerRange(s, (lo + hi) \div 2 + 1, hi)

\* s.lower()
Lower(s) == LowerRange(s, 1, Len(s))

SlashPositions(s) == {i \in 1..Len(s) : SubSeq(s, i, i) = "/"}

SetMin(S) == CHOOSE x \in S : \A y \in S : x <= y
SetMax(S) == CHOOSE x \in S : \A y \in S : x >= y

\* s.split('/')[0]
SplitFirst(s) ==
    IF SlashPositions(s) = {} THEN s ELSE SubSeq(s, 1, SetMin(SlashPositions(s)) - 1)

\* s.split('/')[-1]
SplitLast(s) ==
    IF SlashPositions(s) = {} THEN s
    ELSE SubSeq(s, SetMax(SlashPositions(s)) + 1, Len(s))

(***************************************************************************)
(* The backend identifiers the model constructs instances for.             *)
(***************************************************************************)
LlmNames ==
    { "OpenAI/gpt-3.5-turbo-16k", "OpenAI/gpt-35-turbo-16k", "OpenAI/gpt-4-32k",
      "OpenAI/text-davinci-003", "Google/gemini-1.5-flash", "Google/gemini-pro",
      "mistralai/Mistral-7B-Instruct-v0.2", "meta-llama/Llama-2-70b-chat-hf",
      "meta-llama/Meta-Llama-3-8B-Instruct", "epfl-llm/meditron-70b",
      "epfl-llm/meditron-7b", "axiong/PMC_LLaMA_13B", "EleutherAI/pythia-70m",
      "openai-community/gpt2" }

(***************************************************************************)
(* MedRAG.__init__: backend profile selection.                             *)
(***************************************************************************)
OpenAI35MaxLength == 16384
OpenAI35ContextLength == 15000
OpenAI4MaxLength == 32768
OpenAI4ContextLength == 30000
Gemini15MaxLength == 1048576
Gemini15ContextLength == 1040384
GeminiMaxLength == 30720
GeminiContextLength == 28672
LocalMaxLength == 2048
LocalContextLength == 1024
MistralMaxLength == 32768
MistralContextLength == 30000
Llama2MaxLength == 4096
Llama2ContextLength == 3072
Llama3MaxLength == 8192
Llama3ContextLength == 7168
MeditronMaxLength == 4096
MeditronContextLength == 3072
PmcLlamaMaxLength == 2048
PmcLlamaContextLength == 1024

\* The branch of lines 43-93 the identifier selects.
ProfileBranchOf(name) ==
    IF Lower(SplitFirst(name)) = "openai" THEN
        IF Contains(SplitLast(name), "gpt-3.5") \/ Contains(SplitLast(name), "gpt-35")
        THEN "openai-gpt-3.5"
        ELSE IF Contains(SplitLast(name), "gpt-4") THEN "openai-gpt-4"
        ELSE "openai-other"
    ELSE IF Contains(Lower(name), "gemini") THEN
        IF Contains(Lower(name), "1.5") THEN "gemini-1.5" ELSE "gemini"
    ELSE IF Contains(Lower(name), "mistral") THEN "mistral"
    ELSE IF Contains(Lower(name), "llama-2") THEN "llama-2"
    ELSE IF Contains(Lower(name), "llama-3") THEN "llama-3"
    ELSE IF Contains(Lower(name), "meditron-70b") THEN "meditron-70b"
    ELSE IF Contains(Lower(name), "pmc_llama") THEN "pmc_llama"
    ELSE "local"

\* ProfileBranchOf, evaluated once for each identifier.
ProfileBranchTable == Tabulated([n \in LlmNames \cup {""} |-> ProfileBranchOf(n)])

ProfileBranch(name) == ProfileBranchTable[name]

\* The backend class the constructor builds the model handle and tokenizer for.
InitClass(name) ==
    IF ProfileBranch(name) \in {"openai-gpt-3.5", "openai-gpt-4", "openai-other"}
    THEN "openai"
    ELSE IF ProfileBranch(name) \in {"gemini-1.5", "gemini"} THEN "gemini"
    ELSE "local"

\* self.max_length after the constructor; 0 stands for "attribute not set".
InitMaxLength(name) ==
    CASE ProfileBranch(name) = "openai-gpt-3.5" -> OpenAI35MaxLength
      [] ProfileBranch(name) = "openai-gpt-4" -> OpenAI4MaxLength
      [] ProfileBranch(name) = "openai-other" -> 0
      [] ProfileBranch(name) = "gemini-1.5" -> Gemini15MaxLength
      [] ProfileBranch(name) = "gemini" -> GeminiMaxLength
      [] ProfileBranch(name) = "mistral" -> MistralMaxLength
      [] ProfileBranch(name) = "llama-2" -> Llama2MaxLength
      [] ProfileBranch(name) = "llama-3" -> Llama3MaxLength
      [] ProfileBranch(name) = "meditron-70b" -> MeditronMaxLength
      [] ProfileBranch(name) = "pmc_llama" -> PmcLlamaMaxLength
      [] OTHER -> LocalMaxLength

\* Mutation: each branch assigns its max_length to context_length as well.
InitContextLengthAsMax(name) == InitMaxLength(name)

\* self.context_length after the constructor; 0 stands for "attribute not set".
InitContextLength(name) ==
    CASE ProfileBranch(name) = "openai-gpt-3.5" -> OpenAI35ContextLength
      [] ProfileBranch(name) = "openai-gpt-4" -> OpenAI4ContextLength
      [] ProfileBranch(name) = "openai-other" -> 0
      [] ProfileBranch(name) = "gemini-1.5" -> Gemini15ContextLength
      [] ProfileBranch(name) = "gemini" -> GeminiContextLength
      [] ProfileBranch(name) = "mistral" -> MistralContextLength
      [] ProfileBranch(name) = "llama-2" -> Llama2ContextLength
      [] ProfileBranch(name) = "llama-3" -> Llama3ContextLength
      [] ProfileBranch(name) = "meditron-70b" -> MeditronContextLength
      [] ProfileBranch(name) = "pmc_llama" -> PmcLlamaContextLength
      [] OTHER -> LocalContextLength

\* The attributes lines 31-105 set on self.
InitAttrs(name) ==
    {"llm_name", "rag", "retrieval_system", "templates", "model", "tokenizer"}
      \cup (IF ProfileBranch(name) = "openai-other" THEN {}
            ELSE {"max_length", "context_length"})

\* self.model
InitModel(name) ==
    CASE InitClass(name) = "openai" -> "name"
      [] InitClass(name) = "gemini" -> "genai"
      [] OTHER -> IF ProfileBranch(name) = "mistral" THEN "mistral" ELSE "pipeline"

\* self.tokenizer
InitTokenizer(name) == IF InitClass(name) = "local" THEN "auto" ELSE "tiktoken"

\* self.tokenizer.chat_template: the jinja file loaded, or the tokenizer's own.
InitChatTemplate(name) ==
    CASE ProfileBranch(name) = "mistral" -> "mistral-instruct.jinja"
      [] ProfileBranch(name) = "meditron-70b" -> "meditron.jinja"
      [] ProfileBranch(name) = "pmc_llama" -> "pmc_llama.jinja"
      [] OTHER -> "default"

\* self.templates
InitTemplates(name) ==
    IF ProfileBranch(name) = "meditron-70b"
    THEN [cot_system |-> "general_cot_system", cot_prompt |-> "meditron_cot",
          medrag_system |-> "general_medrag_system", medrag_prompt |-> "meditron_medrag"]
    ELSE [cot_system |-> "general_cot_system", cot_prompt |-> "general_cot",
          medrag_system |-> "general_medrag_system", medrag_prompt |-> "general_medrag"]

(***************************************************************************)
(* Texts: run-length encoded Python strings.                               *)
(***************************************************************************)
Run(c, n) == IF n <= 0 THEN <<>> ELSE <<[c |-> c, n |-> n]>>

\* a + b
Cat(a, b) ==
    IF a = <<>> THEN b
    ELSE IF b = <<>> THEN a
    ELSE IF a[Len(a)].c = b[1].c
         THEN SubSeq(a, 1, Len(a) - 1)
                \o <<[c |-> b[1].c, n |-> a[Len(a)].n + b[1].n]>> \o Tail(b)
         ELSE a \o b

\* ts[lo] + ... + ts[hi], by halves
RECURSIVE CatRange(_, _, _)
CatRange(ts, lo, hi) ==
    IF lo > hi THEN <<>>
    ELSE IF lo = hi THEN ts[lo]
    ELSE Cat(CatRange(ts, lo, (lo + hi) \div 2), CatRange(ts, (lo + hi) \div 2 + 1, hi))

\* "".join(ts)
CatAll(ts) == CatRange(ts, 1, Len(ts))

\* The text of a string literal.
Str(s) == CatAll([i \in 1..Len(s) |-> Run(SubSeq(s, i, i), 1)])

\* The concatenation of the sequences ss[lo], ..., ss[hi], by halves
RECURSIVE FlatRange(_, _, _)
FlatRange(ss, lo, hi) ==
    IF lo > hi THEN <<>>
    ELSE IF lo = hi THEN ss[lo]
    ELSE FlatRange(ss, lo, (lo + hi) \div 2) \o FlatRange(ss, (lo + hi) \div 2 + 1, hi)

Flatten(ss) == FlatRange(ss, 1, Len(ss))

\* The sum of the run lengths rs[lo].n, ..., rs[hi].n, by halves
RECURSIVE SumN(_, _, _)
SumN(rs, lo, hi) ==
    IF lo > hi THEN 0
    ELSE IF lo = hi THEN rs[lo].n
    ELSE SumN(rs, lo, (lo + hi) \div 2) + SumN(rs, (lo + hi) \div 2 + 1, hi)

\* len(t)
TextLen(t) == SumN(t, 1, Len(t))

NewLine == Run("\n", 1)

\* "\n".join(ts)
JoinNL(ts) ==
    CatAll([i \in 1..(2 * Len(ts) - 1) |->
               IF i % 2 = 1 THEN ts[(i + 1) \div 2] ELSE NewLine])

\* p in t, for texts
TextContains(t, p) ==
    IF p = <<>> THEN TRUE
    ELSE IF Len(p) = 1 THEN \E i \in 1..Len(t) : t[i].c = p[1].c /\ t[i].n >= p[1].n
    ELSE \E i \in 1..(Len(t) - Len(p) + 1) :
            /\ t[i].c = p[1].c /\ t[i].n >= p[1].n
            /\ t[i + Len(p) - 1].c = p[Len(p)].c /\ t[i + Len(p) - 1].n >= p[Len(p)].n
            /\ \A j \in 2..(Len(p) - 1) : t[i + j - 1] = p[j]

IsSpace(c) == c \in {" ", "\n", "\t"}

\* re.sub("\s+", " ", t): each maximal run of whitespace becomes one space
CollapseWs(t) ==
    Flatten([i \in 1..Len(t) |->
                IF ~IsSpace(t[i].c) THEN <<t[i]>>
                ELSE IF i > 1 /\ IsSpace(t[i - 1].c) THEN <<>>
                ELSE <<[c |-> " ", n |-> 1]>>])

(***************************************************************************)
(* The tokenizer collaborators (tiktoken's cl100k_base, the model's        *)
(* AutoTokenizer).  A token [c, w] stands for w copies of the piece c;     *)
(* encode() produces one character or a pair of equal characters per       *)
(* token.  The AutoTokenizer has a beginning-of-sequence token that        *)
(* encode() adds unless add_special_tokens=False and that decode() renders *)
(* as "<s>".  A token sequence is run-length encoded like a text.          *)
(***************************************************************************)
BOS == [c |-> "<s>", w |-> 1]

\* n copies of t
RECURSIVE RepText(_, _)
RepText(t, n) ==
    IF n <= 0 \/ t = <<>> THEN <<>>
    ELSE IF Len(t) = 1 THEN Run(t[1].c, t[1].n * n)
    ELSE Cat(t, RepText(t, n - 1))

\* The text a token decodes to.
TokText(t) == RepText(Str(t.c), t.w)

\* The tokens of n copies of c: pairs, then a single one when n is odd.
EncodeRun(r) ==
    (IF r.n \div 2 > 0 THEN <<[t |-> [c |-> r.c, w |-> 2], n |-> r.n \div 2]>> ELSE <<>>)
      \o (IF r.n % 2 = 1 THEN <<[t |-> [c |-> r.c, w |-> 1], n |-> 1]>> ELSE <<>>)

EncodeText(t) == Flatten([i \in 1..Len(t) |-> EncodeRun(t[i])])

\* tok.encode(t) / tok.encode(t, add_special_tokens=...)
Encode(tok, t, add_special_tokens) ==
    IF tok = "auto" /\ add_special_tokens
    THEN <<[t |-> BOS, n |-> 1]>> \o EncodeText(t)
    ELSE EncodeText(t)

\* len(ids)
IdsLen(ids) == SumN(ids, 1, Len(ids))

\* The first k tokens of the runs lo..hi of ids, by halves
RECURSIVE TakeRange(_, _, _, _)
TakeRange(ids, lo, hi, k) ==
    IF k <= 0 \/ lo > hi THEN <<>>
    ELSE IF lo = hi
         THEN (IF ids[lo].n <= k THEN <<ids[lo]>> ELSE <<[t |-> ids[lo].t, n |-> k]>>)
    ELSE IF SumN(ids, lo, (lo + hi) \div 2) >= k
         THEN TakeRange(ids, lo, (lo + hi) \div 2, k)
    ELSE SubSeq(ids, lo, (lo + hi) \div 2)
           \o TakeRange(ids, (lo + hi) \div 2 + 1, hi,
                        k - SumN(ids, lo, (lo + hi) \div 2))

\* ids[:k]
Take(ids, k) == TakeRange(ids, 1, Len(ids), k)

\* The runs lo..hi of ids without their first k tokens, by halves
RECURSIVE DropRange(_, _, _, _)
DropRange(ids, lo, hi, k) ==
    IF lo > hi THEN <<>>
    ELSE IF k <= 0 THEN SubSeq(ids, lo, hi)
    ELSE IF lo = hi
         THEN (IF ids[lo].n <= k THEN <<>> ELSE <<[t |-> ids[lo].t, n |-> ids[lo].n - k]>>)
    ELSE IF SumN(ids, lo, (lo + hi) \div 2) >= k
         THEN DropRange(ids, lo, (lo + hi) \div 2, k) \o SubSeq(ids, (lo + hi) \div 2 + 1, hi)
    ELSE DropRange(ids, (lo + hi) \div 2 + 1, hi, k - SumN(ids, lo, (lo + hi) \div 2))

\* ids[k:]
Drop(ids, k) == DropRange(ids, 1, Len(ids), k)

\* tok.decode(ids)
Decode(ids) == CatAll([i \in 1..Len(ids) |-> RepText(TokText(ids[i].t), ids[i].n)])

(***************************************************************************)
(* Bounds and the inputs drawn from them.                                  *)
(***************************************************************************)
MaxCalls == 2        \* answer() invocations per instance
MaxSnippets == 2     \* snippets one retrieve() returns
LongLen == 2100000   \* characters of the long snippet (over every context_length)
MaxIds == 3          \* tokens in a sequence given to the stopping criterion

Questions == {Str("2+2?")}

NoOptions == [given |-> FALSE, dict |-> <<>>]

OptionInputs == {NoOptions, [given |-> TRUE, dict |-> [B |-> Str("5"), A |-> Str("4")]]}

SaveDirs == {"None", "out"}

SnippetPool ==
    { [title |-> Str("T"), content |-> Str("C")],
      [title |-> Str("L"), content |-> Run("a", LongLen)] }

SnippetLists == UNION {[1..n -> SnippetPool] : n \in 0..MaxSnippets}

\* What retrieve() does: raises, or returns snippets with one score each.
RetrievalOutcomes ==
    {[raised |-> TRUE, snippets |-> <<>>, scores |-> <<>>]}
      \cup {[raised |-> FALSE, snippets |-> sn,
             scores |-> [i \in 1..Len(sn) |-> Len(sn) - i + 1]] : sn \in SnippetLists}

\* retrieve() is not called on an instance without a retrieval system.
NoRetrieval == [raised |-> FALSE, snippets |-> <<>>, scores |-> <<>>]

GenTexts == {Str("A."), Str("A  is\n\ncorrect")}

\* What the collaborators of one generate() call do: every call returns and
\* the backend produces a text, or one raises before / at / after the
\* invocation of the backend.
ExtOutcomes ==
    {[ext |-> "ok", text |-> t] : t \in GenTexts}
      \cup {[ext |-> e, text |-> <<>>] : e \in {"raise_before", "raise_call", "raise_after"}}

\* Inputs of CustomStoppingCriteria: the tokens generation appends.
StopVocab ==
    { [c |-> "#", w |-> 1], [c |-> "#", w |-> 2], [c |-> "\n", w |-> 1],
      [c |-> "\n", w |-> 2], [c |-> "x", w |-> 1], [c |-> "Us", w |-> 1],
      [c |-> "er:", w |-> 1] }

InputLens == 0..MaxIds

(***************************************************************************)
(* MedRAG.answer, lines 115-135: options and context construction.         *)
(***************************************************************************)
KeyOrder == <<"A", "B", "C", "D">>

InDict(d, k) == k \in DOMAIN d

\* sorted(options.keys())
SortedKeys(d) == SelectSeq(KeyOrder, LAMBDA k : InDict(d, k))

\* lines 115-118
FormatOptions(o) ==
    IF o.given
    THEN JoinNL([i \in 1..Len(SortedKeys(o.dict)) |->
                    CatAll(<<Str(SortedKeys(o.dict)[i]), Str(". "),
                             o.dict[SortedKeys(o.dict)[i]]>>)])
    ELSE <<>>

\* The literal parts of "Document [{:d}] (Title: {:s}) {:s}".
DocumentPart == Str("Document [")
TitlePart == Str("] (Title: ")
ContentPart == Str(") ")

\* "Document [{:d}] (Title: {:s}) {:s}".format(idx, title, content)
FormatSnippet(idx, sn) ==
    CatAll(<<DocumentPart, Str(ToString(idx)), TitlePart, sn.title, ContentPart,
             sn.content>>)

\* lines 123-125
FormattedContexts(snippets) ==
    IF Len(snippets) = 0 THEN << <<>> >>
    ELSE [i \in 1..Len(snippets) |-> FormatSnippet(i - 1, snippets[i])]

\* The encoding branch of lines 126-131: the "openai" and "gemini" branches
\* call encode() with its default add_special_tokens, the last branch passes
\* add_special_tokens=False.
TruncClassOf(name) ==
    IF Contains(Lower(name), "openai") THEN "openai"
    ELSE IF Contains(Lower(name), "gemini") THEN "gemini"
    ELSE "local"

\* TruncClassOf, evaluated once for each identifier.
TruncClassTable == Tabulated([n \in LlmNames \cup {""} |-> TruncClassOf(n)])

TruncClass(name) == TruncClassTable[name]

\* lines 126-131: [decode(encode("\n".join(contexts))[:context_length])]
Truncate(tok, add_special_tokens, len, snippets) ==
    << Decode(Take(Encode(tok, JoinNL(FormattedContexts(snippets)), add_special_tokens),
                   len)) >>

\* The tokenizer, special-token setting and context_length answer() can
\* truncate with: those of the instances the constructor builds.
TruncateInputs ==
    { <<InitTokenizer(n), TruncClass(n) # "local", InitContextLength(n)>> :
        n \in {m \in LlmNames : "context_length" \in InitAttrs(m)} }

\* Truncate, tabulated over its inputs.
TruncateTable ==
    Tabulated([k \in TruncateInputs |->
                 Tabulated([sn \in SnippetLists |-> Truncate(k[1], k[2], k[3], sn)])])

\* lines 126-131 on this instance
TruncatedContexts(snippets) ==
    TruncateTable[<<tokenizer, TruncClass(llm_name) # "local", context_length>>][snippets]

(***************************************************************************)
(* Prompt templates (template.py, templates/*.jinja).                      *)
(***************************************************************************)
NoText == <<>>

\* template.render(context=..., question=..., options=...): the rendered prompt,
\* kept with the fields it was rendered from.
Render(tpl, context, q, o) ==
    [tpl |-> tpl, context |-> context, question |-> q, options |-> o]

\* A system prompt is a constant of template.py.
SystemPrompt(tpl) == Render(tpl, NoText, NoText, NoText)

\* The text of a rendered prompt.
RenderText(r) ==
    CatAll(<<Str("{"), Str(r.tpl), Str("}"), r.context, Str("\n"), r.question,
             Str("\n"), r.options>>)

\* tokenizer.apply_chat_template(messages, tokenize=False, add_generation_prompt=True)
ApplyChatTemplate(messages) ==
    CatAll(<<Str("[S]"), RenderText(messages[1].content), Str("[U]"),
             RenderText(messages[2].content), Str("[A]")>>)

\* lines 143-147
CotMessages ==
    << [role |-> "system", content |-> SystemPrompt(templates.cot_system)],
       [role |-> "user",
        content |-> Render(templates.cot_prompt, NoText, question, options)] >>

\* lines 152-156
MedragMessages(context) ==
    << [role |-> "system", content |-> SystemPrompt(templates.medrag_system)],
       [role |-> "user",
        content |-> Render(templates.medrag_prompt, context, question, options)] >>

(***************************************************************************)
(* MedRAG.custom_stop and MedRAG.generate.                                 *)
(***************************************************************************)
MeditronStopWords == <<Str("###"), Str("User:"), Str("\n\n\n")>>

\* lines 168-170: a StoppingCriteriaList of one CustomStoppingCriteria.
custom_stop(stop_str, len) == << [stops_words |-> stop_str, input_len |-> len] >>

\* The invocation path of lines 176-274.
GenPathOf(name) ==
    IF Contains(Lower(name), "openai") THEN "openai"
    ELSE IF Contains(Lower(name), "gemini") THEN "gemini"
    ELSE IF Contains(Lower(name), "mistral") THEN "mistral"
    ELSE IF Contains(Lower(name), "meditron") THEN "meditron"
    ELSE IF Contains(Lower(name), "llama-3") THEN "llama-3"
    ELSE "generic"

\* GenPathOf, evaluated once for each identifier.
GenPathTable == Tabulated([n \in LlmNames \cup {""} |-> GenPathOf(n)])

GenPath(name) == GenPathTable[name]

\* The backend class of the path generate() takes.
GenClass(name) ==
    IF GenPath(name) \in {"openai", "gemini"} THEN GenPath(name) ELSE "local"

\* What generate() leaves behind when nothing has been called yet.
NoGen ==
    [path |-> "none", handle |-> "none", invoked |-> 0, stop |-> <<>>,
     pkv_in |-> 0, pkv_new |-> 0, raised |-> FALSE, exc |-> "none",
     ans |-> NoText, messages |-> <<>>, eos |-> "none"]

\* A generate() call that raised, after `inv` invocations of the backend.
Raised(base, inv, exc) == [base EXCEPT !.invoked = inv, !.raised = TRUE, !.exc = exc]

\* A generate() call that returned text.
Returned(base, text) == [base EXCEPT !.invoked = 1, !.ans = text]

\* lines 176-192: the hosted paths; one API call with self.model, no local
\* state, and no collaborator called before the API call.
GenerateHosted(base, ext, text) ==
    IF ext = "raise_call" THEN Raised(base, 1, "collaborator")
    ELSE IF ext = "raise_after" THEN Raised(base, 1, "collaborator")
    ELSE Returned(base, text)

\* lines 218-250 and 275: past_key_values is a local set to None on line 223,
\* passed to the model on line 237 and rebound on line 250.
GenerateMistral(base, ext, text) ==
    IF ext = "raise_before" THEN Raised(base, 0, "collaborator")
    ELSE IF ext = "raise_call" THEN Raised([base EXCEPT !.pkv_in = 0], 1, "collaborator")
    ELSE IF ext = "raise_after"
         THEN Raised([base EXCEPT !.pkv_in = 0, !.pkv_new = model_calls + 1], 1,
                     "collaborator")
    ELSE Returned([base EXCEPT !.pkv_in = 0, !.pkv_new = model_calls + 1], text)

\* eos_token_id of lines 259 and 269
PipelineEos(name) == IF GenPath(name) = "llama-3" THEN "eos,eot_id" ELSE "eos"

\* lines 252-254 and 275: the criterion is built, no branch binds `response`.
GenerateMeditron(base, ext, text) ==
    IF ext = "raise_before" THEN Raised(base, 0, "collaborator")
    ELSE Raised([base EXCEPT !.stop =
                    custom_stop(MeditronStopWords,
                                IdsLen(Encode(tokenizer,
                                              ApplyChatTemplate(base.messages), TRUE)))],
                0, "UnboundLocalError")

\* lines 255-275: one call of the text-generation pipeline, stopping_criteria=None.
GeneratePipeline(base, ext, text) ==
    IF ext = "raise_before" THEN Raised(base, 0, "collaborator")
    ELSE IF ext \in {"raise_call", "raise_after"}
         THEN Raised([base EXCEPT !.eos = PipelineEos(llm_name)], 1, "collaborator")
    ELSE Returned([base EXCEPT !.eos = PipelineEos(llm_name)], text)

\* generate(messages), with what its collaborators do (ext) and produce (text).
Generate(messages, ext, text) ==
    LET base == [NoGen EXCEPT !.path = GenPath(llm_name), !.handle = model,
                              !.messages = messages]
    IN  CASE GenPath(llm_name) \in {"openai", "gemini"} -> GenerateHosted(base, ext, text)
          [] GenPath(llm_name) = "mistral" -> GenerateMistral(base, ext, text)
          [] GenPath(llm_name) = "meditron" -> GenerateMeditron(base, ext, text)
          [] OTHER -> GeneratePipeline(base, ext, text)

(***************************************************************************)
(* CustomStoppingCriteria.                                                 *)
(***************************************************************************)
\* Mutation: the whole sequence is decoded, the prompt included.
StopCriterionWholeSequence(words, len, ids) ==
    \E k \in 1..Len(words) : TextContains(Decode(ids), words[k])

\* lines 285-287: any(stop in decode(input_ids[0][input_len:]) for stop in words)
StopCriterion(words, len, ids) ==
    \E k \in 1..Len(words) : TextContains(Decode(Drop(ids, len)), words[k])

(***************************************************************************)
(* The state before the constructor runs.                                  *)
(***************************************************************************)
Init ==
    /\ pc = "new"
    /\ llm_name = "" /\ rag = FALSE /\ attrs = {}
    /\ model = "none" /\ tokenizer = "none" /\ chat_template = "none"
    /\ max_length = 0 /\ context_length = 0
    /\ templates = InitTemplates("")
    /\ retrieval_system = FALSE
    /\ question = NoText /\ options = NoText /\ save_dir = "None"
    /\ retrieved_snippets = <<>> /\ scores = <<>> /\ contexts = <<>> /\ answers = <<>>
    /\ outcome = "none" /\ error = "none"
    /\ result = [kind |-> "none", value |-> NoText]
    /\ ncalls = 0 /\ ret_calls = 0 /\ gen_calls = 0
    /\ gen = NoGen /\ model_calls = 0 /\ pkv_out = 0
    /\ dir_exists = FALSE /\ written = <<>>
    /\ stops_words = <<>> /\ input_len = 0 /\ input_ids = <<>> /\ stop_result = "none"

(***************************************************************************)
(* MedRAG.__init__, lines 30-105.                                          *)
(***************************************************************************)
Construct(name, r) ==
    /\ pc = "new"
    /\ pc' = "idle"
    /\ llm_name' = name
    /\ rag' = r
    /\ retrieval_system' = r
    /\ attrs' = InitAttrs(name)
    /\ model' = InitModel(name)
    /\ tokenizer' = InitTokenizer(name)
    /\ chat_template' = InitChatTemplate(name)
    /\ max_length' = InitMaxLength(name)
    /\ context_length' = InitContextLength(name)
    /\ templates' = InitTemplates(name)
    /\ UNCHANGED <<callVars, genVars, stopVars>>

\* A collaborator of the constructor raises (RetrievalSystem, AutoTokenizer,
\* open() of a template file, os.environ, the model loader): no instance.
ConstructFails ==
    /\ pc = "new"
    /\ pc' = "failed"
    /\ UNCHANGED <<selfVars, callVars, genVars, stopVars>>

(***************************************************************************)
(* MedRAG.answer.                                                          *)
(***************************************************************************)
\* lines 115-141, up to the first generate() call
AnswerBegin(q, o, sd, ret) ==
    /\ pc = "idle"
    /\ ncalls < MaxCalls
    /\ ncalls' = ncalls + 1
    /\ question' = q
    /\ options' = FormatOptions(o)
    /\ save_dir' = sd
    /\ gen_calls' = 0
    /\ answers' = <<>>
    /\ written' = <<>>
    /\ result' = [kind |-> "none", value |-> NoText]
    /\ ret_calls' = IF rag THEN 1 ELSE 0
    /\ gen' = NoGen
    /\ IF rag /\ ret.raised
       THEN /\ pc' = "idle" /\ outcome' = "raised" /\ error' = "retrieve"
            /\ retrieved_snippets' = <<>> /\ scores' = <<>> /\ contexts' = <<>>
            /\ UNCHANGED dir_exists
       ELSE IF rag /\ "context_length" \notin attrs
       THEN /\ pc' = "idle" /\ outcome' = "raised" /\ error' = "AttributeError"
            /\ retrieved_snippets' = ret.snippets /\ scores' = ret.scores
            /\ contexts' = FormattedContexts(ret.snippets)
            /\ UNCHANGED dir_exists
       ELSE /\ pc' = "generating" /\ outcome' = "none" /\ error' = "none"
            /\ retrieved_snippets' = IF rag THEN ret.snippets ELSE <<>>
            /\ scores' = IF rag THEN ret.scores ELSE <<>>
            /\ contexts' = IF rag THEN TruncatedContexts(ret.snippets) ELSE <<>>
            /\ dir_exists' = (dir_exists \/ sd # "None")
    /\ UNCHANGED <<selfVars, model_calls, pkv_out, stopVars>>

\* The messages of the next generate() call of lines 142-158.
NextMessages == IF rag THEN MedragMessages(contexts[gen_calls + 1]) ELSE CotMessages

\* How many generate() calls lines 142-158 make when none raises.
Prompts == IF rag THEN Len(contexts) ELSE 1

\* Mutation: an exception of generate() is swallowed and answer() goes on.
AfterGenerateSwallow(g) == IF gen_calls + 1 = Prompts THEN "saving" ELSE "generating"

\* Where answer() continues after a generate() call: an exception leaves
\* answer() (nothing catches it), the last answer leads to lines 160-166.
AfterGenerate(g) ==
    IF g.raised THEN "idle"
    ELSE IF gen_calls + 1 = Prompts THEN "saving" ELSE "generating"

\* lines 142-158: one generate() call and what answer() does with it
GenerateStep(out) ==
    /\ pc = "generating"
    /\ gen_calls < Prompts
    /\ \E g \in {Generate(NextMessages, out.ext, out.text)} :
           /\ gen' = g
           /\ gen_calls' = gen_calls + 1
           /\ model_calls' = model_calls + (IF g.path \in {"openai", "gemini"}
                                            THEN 0 ELSE g.invoked)
           /\ pkv_out' = IF g.pkv_new # 0 THEN g.pkv_new ELSE pkv_out
           /\ pc' = AfterGenerate(g)
           /\ IF g.raised
              THEN /\ outcome' = "raised" /\ error' = g.exc
                   /\ UNCHANGED answers
              ELSE /\ answers' = Append(answers, CollapseWs(g.ans))
                   /\ UNCHANGED <<outcome, error>>
    /\ UNCHANGED <<selfVars, stopVars, question, options, save_dir,
                   retrieved_snippets, scores, contexts, result, ncalls, ret_calls,
                   dir_exists, written>>

\* answers[0] if len(answers)==1 else answers
ReturnValue(ans) ==
    IF Len(ans) = 1 THEN [kind |-> "str", value |-> ans[1]]
    ELSE [kind |-> "list", value |-> ans]

\* lines 160-164
SavedFiles(sd, snippets, ans) ==
    IF sd # "None"
    THEN << [file |-> "snippets.json", data |-> snippets],
            [file |-> "response.json", data |-> ans] >>
    ELSE <<>>

\* lines 160-166
AnswerFinish ==
    /\ pc = "saving"
    /\ written' = SavedFiles(save_dir, retrieved_snippets, answers)
    /\ result' = ReturnValue(answers)
    /\ outcome' = "returned"
    /\ pc' = "idle"
    /\ UNCHANGED <<selfVars, genVars, stopVars, question, options, save_dir,
                   retrieved_snippets, scores, contexts, answers, error, ncalls,
                   ret_calls, gen_calls, dir_exists>>

Next ==
    \/ \E name \in LlmNames, r \in BOOLEAN : Construct(name, r)
    \/ ConstructFails
    \/ \E q \in Questions, o \in OptionInputs, sd \in SaveDirs,
          ret \in (IF rag THEN RetrievalOutcomes ELSE {NoRetrieval}) :
            AnswerBegin(q, o, sd, ret)
    \/ \E out \in ExtOutcomes : GenerateStep(out)
    \/ AnswerFinish

Spec == Init /\ [][Next]_vars

(***************************************************************************)
(* CustomStoppingCriteria on its own: a criterion is constructed and then  *)
(* called on token sequences, as the generation loop of transformers does. *)
(***************************************************************************)
\* lines 279-283
StopNew(words, len) ==
    /\ pc = "new"
    /\ pc' = "criterion"
    /\ stops_words' = words
    /\ input_len' = len
    /\ UNCHANGED <<selfVars, callVars, genVars, input_ids, stop_result>>

\* lines 285-287, called on the sequence so far with one more token
StopCall(tok) ==
    /\ pc = "criterion"
    /\ Len(input_ids) < MaxIds
    /\ input_ids' = Append(input_ids, [t |-> tok, n |-> 1])
    /\ stop_result' = IF StopCriterion(stops_words, input_len, input_ids')
                      THEN "True" ELSE "False"
    /\ UNCHANGED <<pc, selfVars, callVars, genVars, stops_words, input_len>>

NextStop ==
    \/ \E words \in {MeditronStopWords, <<>>}, len \in InputLens : StopNew(words, len)
    \/ \E tok \in StopVocab : StopCall(tok)

SpecStop == Init /\ [][NextStop]_vars

(***************************************************************************)
(* Properties.                                                             *)
(***************************************************************************)
Constructed == pc \notin {"new", "failed", "criterion"}

\* An answer() invocation has ended (returned or raised).
AnswerEnded == pc = "idle" /\ ncalls > 0

\* No collaborator (retrieval, tokenizer, model, API) raised during the last
\* answer(): whatever it raised came from the code of answer()/generate().
NoCollaboratorRaised == error \notin {"retrieve", "collaborator"}

\* C1: with rag=False every answer() makes no retrieval call, exactly one
\* generate() call, and returns a single answer string with empty snippets
\* and empty scores.
C1_CotAnswerReturnsOneString ==
    (~rag /\ AnswerEnded /\ NoCollaboratorRaised) =>
        /\ ret_calls = 0
        /\ gen_calls = 1
        /\ outcome = "returned"
        /\ result.kind = "str"
        /\ retrieved_snippets = <<>>
        /\ scores = <<>>

\* What does hold of answer() with rag=False: no retrieval call, at most one
\* generate() call, and a return value that is one string with empty snippets
\* and scores whenever answer() returns.
CotAnswerShape ==
    (~rag /\ Constructed) =>
        /\ ret_calls = 0
        /\ gen_calls <= 1
        /\ (AnswerEnded => gen_calls = 1)
        /\ (AnswerEnded /\ outcome = "returned" =>
                result.kind = "str" /\ retrieved_snippets = <<>> /\ scores = <<>>)

\* C2: with a save directory, when retrieval or generate() raises, answer()
\* raises that exception without retrying and writes neither file; the files
\* are written only after every generation call of the invocation returned.
C2_NoFilesUnlessAllGenerated ==
    (Constructed /\ save_dir # "None") =>
        /\ (written # <<>> =>
                /\ outcome = "returned"
                /\ gen_calls = Prompts
                /\ Len(answers) = gen_calls
                /\ ~gen.raised)
        /\ (outcome = "raised" => written = <<>>)
        /\ ret_calls <= 1
        /\ (AnswerEnded /\ error = "retrieve" => ret_calls = 1 /\ gen_calls = 0)
        /\ (gen_calls > 0 /\ gen.raised =>
                /\ pc = "idle" /\ outcome = "raised" /\ error = gen.exc
                /\ gen_calls = Len(answers) + 1)

\* C2's case: a generate() call raised in an answer() that has a save directory.
C2_Witness ==
    /\ save_dir = "out" /\ dir_exists
    /\ AnswerEnded /\ outcome = "raised" /\ error = "collaborator"
    /\ gen_calls = 1 /\ written = <<>>

\* C3: on the meditron path generate() builds the stop criterion (phrases
\* "###", "User:", three newlines; offset = token length of the rendered
\* prompt), invokes the model once with it and returns the generated text.
C3_MeditronInvokesModelOnce ==
    (gen.path = "meditron" /\ gen.exc # "collaborator") =>
        /\ gen.stop = custom_stop(MeditronStopWords,
                                  IdsLen(Encode(tokenizer,
                                                ApplyChatTemplate(gen.messages), TRUE)))
        /\ gen.invoked = 1
        /\ ~gen.raised

\* C4: on the mistral path the past_key_values passed to the model is the one
\* the previous call produced (none only on the first call of the instance).
C4_PastKeyValuesCarried ==
    [][(gen_calls' # gen_calls /\ gen'.path = "mistral" /\ gen'.invoked = 1)
          => gen'.pkv_in = pkv_out]_vars

\* C5: with rag=True and zero snippets retrieved, answer() makes exactly one
\* generate() call, whose prompt is rendered with the empty string as context.
C5_ZeroSnippetsOneGeneration ==
    (rag /\ AnswerEnded /\ NoCollaboratorRaised /\ retrieved_snippets = <<>>) =>
        /\ gen_calls = 1
        /\ gen.messages[2].content.context = NoText

\* What does hold with zero snippets: the context sequence is one empty
\* string whenever answer() gets to generation, on an instance whose tokenizer
\* is the one answer() takes it for (another one may add special tokens).
ZeroSnippetsEmptyContext ==
    (rag /\ pc \in {"generating", "saving"} /\ retrieved_snippets = <<>>
         /\ InitClass(llm_name) = TruncClass(llm_name)) =>
        contexts = << NoText >>

\* C6: with rag=True the context sequence is one element, the decoding of the
\* first context_length tokens of the encoding of the formatted snippets
\* joined by newlines; so generate() is called once and the answer is a string.
C6_OneTruncatedContext ==
    (rag /\ AnswerEnded /\ NoCollaboratorRaised) =>
        /\ \E sp \in BOOLEAN :
              contexts = << Decode(Take(Encode(tokenizer,
                                               JoinNL(FormattedContexts(retrieved_snippets)),
                                               sp),
                                        context_length)) >>
        /\ gen_calls = 1
        /\ (outcome = "returned" => result.kind = "str")

\* What does hold of the context: whenever answer() gets to generation the
\* context is one string, of at most context_length tokens on an instance
\* whose tokenizer is the one answer() takes it for.
OneContextWithinBudget ==
    (rag /\ pc \in {"generating", "saving"}) =>
        /\ Len(contexts) = 1
        /\ (InitClass(llm_name) = TruncClass(llm_name) =>
                IdsLen(EncodeText(contexts[1])) <= context_length)

\* C7: in every branch of the constructor that sets them, context_length is
\* strictly less than max_length.
C7_ContextBelowMax ==
    (Constructed /\ "context_length" \in attrs) =>
        (0 < context_length /\ context_length < max_length)

\* C7's case: an instance of the last branch (pmc_llama) has been constructed.
C7_Witness ==
    /\ Constructed /\ ProfileBranch(llm_name) = "pmc_llama"
    /\ context_length = PmcLlamaContextLength /\ max_length = PmcLlamaMaxLength

\* The characters of a text, one by one.
Chars(t) == Flatten([i \in 1..Len(t) |-> [j \in 1..t[i].n |-> t[i].c]])

\* The characters of a token.
TokChars(tok) == Flatten([j \in 1..tok.w |-> Chars(Str(tok.c))])

\* The tokens of a sequence, one by one.
Toks(ids) == Flatten([i \in 1..Len(ids) |-> [j \in 1..ids[i].n |-> ids[i].t]])

\* The characters of the tokens at positions len and later (from 0).
GeneratedChars(ids, len) ==
    Flatten([i \in 1..(Len(Toks(ids)) - len) |-> TokChars(Toks(ids)[len + i])])

\* p occurs in cs
Occurs(p, cs) == \E i \in 1..(Len(cs) - Len(p) + 1) : SubSeq(cs, i, i + Len(p) - 1) = p

\* C8: the criterion returns true iff a stop phrase is a substring of the text
\* decoded from the tokens at positions input_len and later; the tokens
\* before input_len do not affect the result.
C8_StopIffPhraseAfterOffset ==
    (stop_result # "none") =>
        /\ (stop_result = "True") <=>
              (\E k \in 1..Len(stops_words) :
                  Occurs(Chars(stops_words[k]), GeneratedChars(input_ids, input_len)))
        /\ \A tok \in StopVocab : \A i \in 1..Min(input_len, Len(input_ids)) :
              StopCriterion(stops_words, input_len,
                            [input_ids EXCEPT ![i] = [t |-> tok, n |-> 1]])
                = (stop_result = "True")

\* C8's case: a stop phrase occurs in the prompt only, and the call says no.
C8_Witness ==
    /\ stop_result = "False" /\ input_len > 0 /\ Len(input_ids) > input_len
    /\ \E k \in 1..Len(stops_words) :
          Occurs(Chars(stops_words[k]), GeneratedChars(input_ids, 0))

\* C9: the backend class the constructor builds for is the class answer()
\* truncates for and the class generate() dispatches on; generate() never takes
\* a hosted path with a handle built for another class.
C9_BackendClassAgrees ==
    Constructed =>
        /\ InitClass(llm_name) = TruncClass(llm_name)
        /\ InitClass(llm_name) = GenClass(llm_name)
        /\ (gen.path = "openai" => gen.handle = "name")
        /\ (gen.path = "gemini" => gen.handle = "genai")

\* C10: after the constructor returns, max_length and context_length are set,
\* so answer() with rag=True can always truncate the context.
C10_LengthsAlwaysSet ==
    Constructed =>
        /\ {"max_length", "context_length"} \subseteq attrs
        /\ error # "AttributeError"

====
